---------------------------- MODULE Spec2Model ----------------------------
(***************************************************************************)
(* Model of ScreenRecorder (src/main.py): the recording session driven by  *)
(* main(), the top-level try/except/finally of __main__, the idempotent    *)
(* cleanup_audio() and the console-close handler thread that may run it    *)
(* concurrently, and the external encoder process and files they act on.   *)
(*                                                                         *)
(* Threads: "main" runs __main__ and main(); "handler" is the thread on   *)
(* which Windows runs _console_close_handler.  pc[t] is the source         *)
(* position of thread t.  Durations probed from a file are in centiseconds *)
(* (the prober prints two decimals).                                       *)
(***************************************************************************)
EXTENDS Integers, Sequences, FiniteSets, TLC

VARIABLES
    args,               \* parsed command line (argparse namespace)
    pc,                 \* pc[t]: position of thread t in the source
    error,              \* exception caught by the top-level handler, or "none"
    exitKind,           \* "running" | "normal" | "os_exit" | "terminated"
    handlerRegistered,  \* SetConsoleCtrlHandler was called
    hevent,             \* the console control event delivered, or -1
    cleanup_done,       \* the global _cleanup_done
    teardownRuns,       \* times the body of cleanup_audio was entered
    teardownDone,       \* times the body of cleanup_audio ran to its end
    driver,             \* the virtual-cable driver is installed
    vbDefault,          \* the virtual cable is the default endpoint
    repeater,           \* the audio repeater process is running
    prov,               \* provisioning steps main() has completed
    proc,               \* encoder process: "none" | "running" | "exited"
    rc,                 \* encoder exit status: "none" | "ok" | "err"
    encWrote,           \* the encoder of this session created the output file
    gotQ,               \* the encoder received the stop command
    outFile,            \* output path: "absent" | "stale" | "raw" | "partial" | "trimmed"
    tmpFile,            \* temporary sibling: "absent" | "partial" | "trimmed"
    outLen,             \* content at the output path, in centiseconds
    tmpLen,             \* content of the temporary sibling, in centiseconds
    missingDevice,      \* audio role whose device could not be resolved, or "none"
    probeResult,        \* "none" | "matched" | "nomatch": the duration pattern on the probe output
    duration,           \* probed duration in centiseconds, -1 before the probe
    reencodeRc,         \* exit status of the trim re-encode: "none" | "ok" | "err"
    trim,               \* the -ss / -t values given to the re-encode
    ignoredStops,       \* stop-hotkey presses made while nobody waited for them
    audio_inputs,       \* main()'s audio_inputs: (input index, delay ms, label)
    audio_filters,      \* main()'s audio_filters: the filter stages, in order
    cmd,                \* main()'s cmd: the encoder argument list
    log                 \* session events of the main thread, in order

vars == <<args, pc, error, exitKind, handlerRegistered, hevent, cleanup_done,
          teardownRuns, teardownDone, driver, vbDefault, repeater, prov,
          proc, rc, encWrote, gotQ, outFile, tmpFile, outLen, tmpLen,
          missingDevice,
          probeResult, duration, reencodeRc, trim, ignoredStops,
          audio_inputs, audio_filters, cmd, log>>

audioVars == <<driver, vbDefault, repeater, prov>>
cleanupVars == <<cleanup_done, teardownRuns, teardownDone>>
encVars == <<proc, rc, encWrote, gotQ>>
fileVars == <<outFile, tmpFile, outLen, tmpLen>>
postVars == <<probeResult, duration, reencodeRc, trim>>
cmdVars == <<audio_inputs, audio_filters, cmd>>
hostVars == <<args, handlerRegistered, hevent, ignoredStops, missingDevice,
              cmdVars>>

----------------------------------------------------------------------------
(* Bounds and input sets *)

\* stop-hotkey presses counted while the session is not waiting for them
MaxIgnoredStops == 1

Threads == {"main", "handler"}

\* values of --duration tried (type=int accepts any integer)
DurationValues == {0, 1, 5}

\* console control events delivered to the handler:
\* CTRL_BREAK (1), CTRL_CLOSE (2), CTRL_LOGOFF (5), CTRL_SHUTDOWN (6)
CtrlEvents == {1, 2, 5, 6}

\* content of a file found at --output before the session, in centiseconds
StaleLengths == {6500}

\* content the encoder has written when it is stopped or fails, in
\* centiseconds
RecordedLengths == {0, 400, 401}

\* the "Duration: H:M:S.ss" line the prober prints for a file of len
\* centiseconds
DurationLine(len) ==
    [match |-> TRUE, h |-> len \div 360000, m |-> (len % 360000) \div 6000,
     cs |-> len % 6000]

\* what the prober prints for a file of len centiseconds: no
\* "Duration: H:M:S.ss" line, or the one of the file
ProbeLines(len) ==
    { [match |-> FALSE, h |-> 0, m |-> 0, cs |-> 0], DurationLine(len) }

\* values of --duration tried on the command synthesis alone
CmdDurationValues == {-5, -4, 0, 1, 5}

\* the command lines tried on the command synthesis alone
CmdArgSpace ==
    [ system_audio : BOOLEAN, microphone : BOOLEAN,
      has_duration : BOOLEAN, duration : CmdDurationValues,
      output_given : BOOLEAN, show_mouse : BOOLEAN, fps : {15, 30},
      resolution : {"1920x1080"} ]

\* the command lines of the session runs: the defaults of --resolution and
\* --fps, no --show-mouse
ArgSpace ==
    [ system_audio : BOOLEAN, microphone : BOOLEAN,
      has_duration : BOOLEAN, duration : DurationValues, output_given : BOOLEAN,
      show_mouse : {FALSE}, fps : {15}, resolution : {"1920x1080"} ]

----------------------------------------------------------------------------
(* Helpers *)

\* truthiness of args.duration: None and 0 are false
DurationSet == args.has_duration /\ args.duration # 0

Alive == exitKind = "running"

At(t, p) == Alive /\ pc[t] = p

Goto(t, p) == pc' = [pc EXCEPT ![t] = p]

\* an exception propagates out of main() to "except Exception as e"
Raise(e) == /\ pc' = [pc EXCEPT !["main"] = "except"]
            /\ error' = e

Logged(e) == \E i \in 1..Len(log) : log[i] = e

Count(e) == Cardinality({ i \in 1..Len(log) : log[i] = e })

\* position of the first e in the log
Index(e) == CHOOSE i \in 1..Len(log) : log[i] = e

Before(a, b) == Logged(a) /\ Logged(b) /\ Index(a) < Index(b)

\* duration = int(h)*3600 + int(m_)*60 + float(s), in centiseconds
ParseDuration(line) == line.h * 360000 + line.m * 6000 + line.cs

\* mutant of StartOffset: the offset is taken whatever the duration
StartOffsetAlways(d) == 4

\* str(4 if duration > 4 else 0), in seconds
StartOffset(d) == IF d > 400 THEN 4 ELSE 0

\* mutant of TrimmedLength: the requested span is written in full
TrimmedLengthUnclamped(len, ss, t) == t

\* content of the re-encode's output for "-i <len cs> -ss ss -t t": the
\* first ss seconds are dropped, then at most t centiseconds are written,
\* ending where the input ends
TrimmedLength(len, ss, t) ==
    LET rest == IF len > ss * 100 THEN len - ss * 100 ELSE 0
    IN  IF t < rest THEN t ELSE rest

----------------------------------------------------------------------------
(* main(): command synthesis, lines 199-233 *)

Digit(d) ==
    CASE d = 0 -> "0" [] d = 1 -> "1" [] d = 2 -> "2" [] d = 3 -> "3"
      [] d = 4 -> "4" [] d = 5 -> "5" [] d = 6 -> "6" [] d = 7 -> "7"
      [] d = 8 -> "8" [] d = 9 -> "9"

RECURSIVE NatStr(_)
NatStr(n) == IF n < 10 THEN Digit(n) ELSE NatStr(n \div 10) \o Digit(n % 10)

\* str(n) of an int
Str(n) == IF n < 0 THEN "-" \o NatStr(-n) ELSE NatStr(n)

\* ';'.join(parts)
RECURSIVE Join(_)
Join(parts) ==
    IF Len(parts) = 0 THEN ""
    ELSE IF Len(parts) = 1 THEN parts[1]
    ELSE parts[1] \o ";" \o Join(Tail(parts))

\* truthiness of a.duration: None and 0 are false
DurationTruthy(a) == a.has_duration /\ a.duration # 0

FFMPEG_EXE == "dependencies\\ffmpeg.exe"

\* FriendlyName of the default microphone, once resolved
InputDevice == "Microphone (USB Audio Device)"

\* output_file: args.output, or the timestamped default under recordings
OutputFile(a) ==
    IF a.output_given THEN "out.mp4"
    ELSE "recordings\\Recording_20260101_120000.mp4"

\* mutant of PlanAudioInputs: the microphone delay ignores system audio
PlanAudioInputsFlatDelay(system_audio, microphone) ==
    LET sys == IF system_audio
               THEN << [idx |-> 1, delay |-> 600, label |-> "[a_sys]"] >>
               ELSE << >>
        mic == IF microphone
               THEN << [idx   |-> Len(sys) + 1,
                        delay |-> 500,
                        label |-> IF system_audio THEN "[a_mic]"
                                                  ELSE "[a_out]"] >>
               ELSE << >>
    IN  sys \o mic

\* audio_inputs: (encoder input index, delay in ms, filter label)
PlanAudioInputs(system_audio, microphone) ==
    LET sys == IF system_audio
               THEN << [idx |-> 1, delay |-> 600, label |-> "[a_sys]"] >>
               ELSE << >>
        mic == IF microphone
               THEN << [idx   |-> Len(sys) + 1,
                        delay |-> IF system_audio THEN 1200 ELSE 500,
                        label |-> IF system_audio THEN "[a_mic]"
                                                  ELSE "[a_out]"] >>
               ELSE << >>
    IN  sys \o mic

\* f'[{i}:a]adelay={d}|{d}{l}'
DelayStage(in) ==
    "[" \o Str(in.idx) \o ":a]adelay=" \o Str(in.delay) \o "|"
        \o Str(in.delay) \o in.label

\* f'{audio_inputs[0][2]}{audio_inputs[1][2]}amerge=inputs=2[a_out]'
MergeStage(inputs) ==
    inputs[1].label \o inputs[2].label \o "amerge=inputs=2[a_out]"

\* mutant of AudioFilters: the merge stage is put first
AudioFiltersMergeFirst(inputs) ==
    IF Len(inputs) = 0 THEN << >>
    ELSE (IF Len(inputs) = 2 THEN << MergeStage(inputs) >> ELSE << >>)
         \o [i \in 1..Len(inputs) |-> DelayStage(inputs[i])]

\* audio_filters: one delay stage per input, then the merge for two inputs
AudioFilters(inputs) ==
    IF Len(inputs) = 0 THEN << >>
    ELSE [i \in 1..Len(inputs) |-> DelayStage(inputs[i])]
         \o (IF Len(inputs) = 2 THEN << MergeStage(inputs) >> ELSE << >>)

\* mutant of AudioMap: the merged label is mapped whatever the inputs
AudioMapAlways(inputs) == << "-map", "[a_out]" >>

\* shlex.split(audio_map): '-map [a_out]' for two inputs, '-map <label>'
\* for one, '' for none
AudioMap(inputs) ==
    IF Len(inputs) = 0 THEN << >>
    ELSE IF Len(inputs) = 2 THEN << "-map", "[a_out]" >>
    ELSE << "-map", inputs[1].label >>

\* the '-f dshow -i audio=...' capture inputs, system audio first
AudioCaptureArgs(a) ==
    (IF a.system_audio
     THEN << "-f", "dshow", "-i",
             "audio=CABLE Output (VB-Audio Virtual Cable)" >>
     ELSE << >>)
    \o (IF a.microphone
        THEN << "-f", "dshow", "-i", "audio=" \o InputDevice >>
        ELSE << >>)

\* if args.duration: cmd += ['-t', str(args.duration + 4)]
DurationLimitArgs(a) ==
    IF DurationTruthy(a) THEN << "-t", Str(a.duration + 4) >> ELSE << >>

\* mutant of BuildCmd: the duration limit is appended after the output path
BuildCmdLimitLast(a, inputs, filters) ==
    << FFMPEG_EXE, "-y", "-f", "gdigrab",
       "-framerate", Str(a.fps),
       "-video_size", a.resolution,
       "-draw_mouse", IF a.show_mouse THEN "1" ELSE "0",
       "-i", "desktop" >>
    \o AudioCaptureArgs(a)
    \o (IF Len(filters) > 0 THEN << "-filter_complex", Join(filters) >>
                            ELSE << >>)
    \o << "-map", "0:v" >>
    \o AudioMap(inputs)
    \o << "-c:v", "libx264", "-crf", "20", "-preset", "ultrafast",
          "-pix_fmt", "yuv420p" >>
    \o (IF Len(filters) > 0
        THEN << "-c:a", "aac", "-b:a", "192k", "-ac", "2" >>
        ELSE << >>)
    \o << "-threads", "0" >>
    \o << OutputFile(a) >>
    \o DurationLimitArgs(a)

\* cmd, as main() assembles it
BuildCmd(a, inputs, filters) ==
    << FFMPEG_EXE, "-y", "-f", "gdigrab",
       "-framerate", Str(a.fps),
       "-video_size", a.resolution,
       "-draw_mouse", IF a.show_mouse THEN "1" ELSE "0",
       "-i", "desktop" >>
    \o AudioCaptureArgs(a)
    \o (IF Len(filters) > 0 THEN << "-filter_complex", Join(filters) >>
                            ELSE << >>)
    \o << "-map", "0:v" >>
    \o AudioMap(inputs)
    \o << "-c:v", "libx264", "-crf", "20", "-preset", "ultrafast",
          "-pix_fmt", "yuv420p" >>
    \o (IF Len(filters) > 0
        THEN << "-c:a", "aac", "-b:a", "192k", "-ac", "2" >>
        ELSE << >>)
    \o << "-threads", "0" >>
    \o DurationLimitArgs(a)
    \o << OutputFile(a) >>

\* lines 199-233 as one assignment of main()'s locals
SynthesizeCommand ==
    /\ audio_inputs' = PlanAudioInputs(args.system_audio, args.microphone)
    /\ audio_filters' = AudioFilters(audio_inputs')
    /\ cmd' = BuildCmd(args, audio_inputs', audio_filters')

----------------------------------------------------------------------------
(* Initial state: the interpreter has parsed the command line *)

\* everything but the command line
InitState ==
    /\ pc = [t \in Threads |-> IF t = "main" THEN "start" ELSE "idle"]
    /\ error = "none"
    /\ exitKind = "running"
    /\ handlerRegistered = FALSE
    /\ hevent = -1
    /\ cleanup_done = FALSE
    /\ teardownRuns = 0
    /\ teardownDone = 0
    /\ driver = FALSE
    /\ vbDefault = FALSE
    /\ repeater = FALSE
    /\ prov = {}
    /\ proc = "none"
    /\ rc = "none"
    /\ encWrote = FALSE
    /\ gotQ = FALSE
    /\ outFile \in (IF args.output_given THEN {"absent", "stale"} ELSE {"absent"})
    /\ tmpFile = "absent"
    /\ outLen \in (IF outFile = "stale" THEN StaleLengths ELSE {0})
    /\ tmpLen = 0
    /\ missingDevice = "none"
    /\ probeResult = "none"
    /\ duration = -1
    /\ reencodeRc = "none"
    /\ trim = [ss |-> -1, t |-> -1]
    /\ ignoredStops = 0
    /\ audio_inputs = <<>>
    /\ audio_filters = <<>>
    /\ cmd = <<>>
    /\ log = <<>>

Init ==
    /\ args \in { a \in ArgSpace : ~a.has_duration => a.duration = 0 }
    /\ InitState

----------------------------------------------------------------------------
(* __main__ up to the call of main() *)

\* if args.system_audio: register_console_close_handler()
RegisterHandler ==
    /\ At("main", "start")
    /\ handlerRegistered' = args.system_audio
    /\ Goto("main", "ensure_admin")
    /\ UNCHANGED <<args, error, exitKind, hevent, cleanupVars, audioVars,
                   encVars, fileVars, postVars, ignoredStops, missingDevice,
                   cmdVars, log>>

\* ensure_admin: not elevated -> relaunch elevated and os._exit(0), which
\* runs no finally block
EnsureAdmin ==
    /\ At("main", "ensure_admin")
    /\ \E admin \in BOOLEAN :
         IF admin
         THEN Goto("main", "resolve_mic") /\ UNCHANGED exitKind
         ELSE exitKind' = "os_exit" /\ UNCHANGED pc
    /\ UNCHANGED <<hostVars, error, cleanupVars, audioVars, encVars,
                   fileVars, postVars, log>>

----------------------------------------------------------------------------
(* main(): device resolution *)

\* mutant of ResolveMicrophone: next(..., None) instead of next(...)
ResolveMicrophoneDefault ==
    /\ At("main", "resolve_mic")
    /\ IF args.microphone
       THEN \E found \in BOOLEAN :
              missingDevice' = IF found THEN missingDevice ELSE "microphone"
       ELSE UNCHANGED missingDevice
    /\ Goto("main", "resolve_spk")
    /\ UNCHANGED <<args, handlerRegistered, hevent, ignoredStops, cmdVars,
                   error, exitKind, cleanupVars, audioVars, encVars, fileVars,
                   postVars, log>>

\* input_device = next(d for d in active capture devices
\*                     if d.id == GetMicrophone().GetId()).FriendlyName
ResolveMicrophone ==
    /\ At("main", "resolve_mic")
    /\ IF args.microphone
       THEN \E found \in BOOLEAN :
              IF found
              THEN /\ Goto("main", "resolve_spk")
                   /\ UNCHANGED <<error, missingDevice>>
              ELSE /\ Raise("StopIteration")
                   /\ missingDevice' = "microphone"
       ELSE Goto("main", "resolve_spk") /\ UNCHANGED <<error, missingDevice>>
    /\ UNCHANGED <<args, handlerRegistered, hevent, ignoredStops, cmdVars,
                   exitKind, cleanupVars, audioVars, encVars,
                   fileVars, postVars, log>>

\* mutant of ResolveSpeakers: arming does not wait for the provisioning
ResolveSpeakersUnprovisioned ==
    /\ At("main", "resolve_spk")
    /\ IF args.system_audio
       THEN \E found \in BOOLEAN :
              IF found
              THEN /\ Goto("main", "ready")
                   /\ SynthesizeCommand
                   /\ UNCHANGED <<error, missingDevice>>
              ELSE /\ Raise("NoSpeakers")
                   /\ missingDevice' = "speakers"
                   /\ UNCHANGED cmdVars
       ELSE /\ Goto("main", "ready")
            /\ SynthesizeCommand
            /\ UNCHANGED <<error, missingDevice>>
    /\ UNCHANGED <<args, handlerRegistered, hevent, ignoredStops, exitKind,
                   cleanupVars, audioVars, encVars, fileVars, postVars, log>>

\* output_device = AudioUtilities.GetSpeakers().FriendlyName
\* then the command is built and the parameters are printed
ResolveSpeakers ==
    /\ At("main", "resolve_spk")
    /\ IF args.system_audio
       THEN \E found \in BOOLEAN :
              IF found
              THEN /\ Goto("main", "install")
                   /\ SynthesizeCommand
                   /\ UNCHANGED <<error, missingDevice>>
              ELSE /\ Raise("NoSpeakers")
                   /\ missingDevice' = "speakers"
                   /\ UNCHANGED cmdVars
       ELSE /\ Goto("main", "ready")
            /\ SynthesizeCommand
            /\ UNCHANGED <<error, missingDevice>>
    /\ UNCHANGED <<args, handlerRegistered, hevent, ignoredStops, exitKind,
                   cleanupVars, audioVars, encVars, fileVars, postVars, log>>

----------------------------------------------------------------------------
(* main(): audio-routing provisioning, only when system_audio *)

\* install_vb_cable: pnputil /add-driver; a non-zero code only warns
InstallVbCable ==
    /\ At("main", "install")
    /\ \E ok \in BOOLEAN : driver' = (driver \/ ok)
    /\ prov' = prov \cup {"install"}
    /\ Goto("main", "install_restart")
    /\ UNCHANGED <<hostVars, error, exitKind, cleanupVars, vbDefault,
                   repeater, encVars, fileVars, postVars, log>>

\* install_vb_cable: time.sleep(1); restart_audio_services()
InstallRestart ==
    /\ At("main", "install_restart")
    /\ prov' = prov \cup {"restart"}
    /\ Goto("main", "set_default")
    /\ UNCHANGED <<hostVars, error, exitKind, cleanupVars, driver, vbDefault,
                   repeater, encVars, fileVars, postVars, log>>

\* set_vb_audio_default: the cable endpoints exist only with the driver
SetVbAudioDefault ==
    /\ At("main", "set_default")
    /\ vbDefault' = driver
    /\ prov' = prov \cup {"set_default"}
    /\ Goto("main", "start_repeater")
    /\ UNCHANGED <<hostVars, error, exitKind, cleanupVars, driver, repeater,
                   encVars, fileVars, postVars, log>>

\* start_audiorepeater(output_device)
StartAudiorepeater ==
    /\ At("main", "start_repeater")
    /\ repeater' = TRUE
    /\ prov' = prov \cup {"repeater"}
    /\ Goto("main", "ready")
    /\ UNCHANGED <<hostVars, error, exitKind, cleanupVars, driver, vbDefault,
                   encVars, fileVars, postVars, log>>

----------------------------------------------------------------------------
(* main(): arming, spawning the encoder, waiting for the output file *)

\* print("Press Ctrl+F9 ..."); flash_screen_async()
FlashReady ==
    /\ At("main", "ready")
    /\ log' = Append(log, "ready_flash")
    /\ Goto("main", "wait_start")
    /\ UNCHANGED <<hostVars, error, exitKind, cleanupVars, audioVars, encVars,
                   fileVars, postVars>>

\* keyboard.wait('ctrl+f9') returns when the start hotkey is pressed
WaitStart ==
    /\ At("main", "wait_start")
    /\ log' = Append(log, "start_hotkey")
    /\ Goto("main", "spawn")
    /\ UNCHANGED <<hostVars, error, exitKind, cleanupVars, audioVars, encVars,
                   fileVars, postVars>>

\* proc = subprocess.Popen(cmd, stdin=PIPE, ...); raises OSError when the
\* encoder cannot be started
Spawn ==
    /\ At("main", "spawn")
    /\ \E ok \in BOOLEAN :
         IF ok
         THEN /\ proc' = "running"
              /\ log' = Append(log, "spawn")
              /\ Goto("main", "poll")
              /\ UNCHANGED error
         ELSE /\ Raise("SpawnError")
              /\ UNCHANGED <<proc, log>>
    /\ UNCHANGED <<hostVars, exitKind, cleanupVars, audioVars, rc, encWrote,
                   gotQ, fileVars, postVars>>

\* mutant of Poll: the loop gives up once the encoder has exited
PollUntilExit ==
    /\ At("main", "poll")
    /\ IF outFile # "absent"
       THEN Goto("main", "grace") /\ log' = Append(log, "file_seen")
                                  /\ UNCHANGED error
       ELSE IF proc = "exited"
            THEN Raise("RuntimeError") /\ UNCHANGED log
            ELSE Goto("main", "poll_sleep") /\ UNCHANGED <<log, error>>
    /\ UNCHANGED <<hostVars, exitKind, cleanupVars, audioVars, encVars,
                   fileVars, postVars>>

\* while True: if os.path.exists(output_file): ... else fall to the sleep
Poll ==
    /\ At("main", "poll")
    /\ IF outFile # "absent"
       THEN Goto("main", "grace") /\ log' = Append(log, "file_seen")
       ELSE Goto("main", "poll_sleep") /\ UNCHANGED log
    /\ UNCHANGED <<hostVars, error, exitKind, cleanupVars, audioVars, encVars,
                   fileVars, postVars>>

\* time.sleep(0.1) at the end of the loop body
PollSleep ==
    /\ At("main", "poll_sleep")
    /\ Goto("main", "poll")
    /\ UNCHANGED <<hostVars, error, exitKind, cleanupVars, audioVars, encVars,
                   fileVars, postVars, log>>

\* mutant of Grace: a stop-hotkey press made so far ends the grace period
\* and is acted on
GraceHearsStop ==
    /\ At("main", "grace")
    /\ Goto("main", IF ignoredStops > 0 THEN "flash_stop" ELSE "started")
    /\ UNCHANGED <<hostVars, error, exitKind, cleanupVars, audioVars, encVars,
                   fileVars, postVars, log>>

\* time.sleep(2)
Grace ==
    /\ At("main", "grace")
    /\ Goto("main", "started")
    /\ UNCHANGED <<hostVars, error, exitKind, cleanupVars, audioVars, encVars,
                   fileVars, postVars, log>>

\* mutant of FlashStarted: the duration branch is never taken
FlashStartedHotkeyOnly ==
    /\ At("main", "started")
    /\ log' = Append(log, "started_flash")
    /\ Goto("main", "wait_stop")
    /\ UNCHANGED <<hostVars, error, exitKind, cleanupVars, audioVars, encVars,
                   fileVars, postVars>>

\* flash_screen_async(); print("Recording started!"); break;
\* if args.duration: ... else: ...
FlashStarted ==
    /\ At("main", "started")
    /\ log' = Append(log, "started_flash")
    /\ Goto("main", IF DurationSet THEN "wait_duration" ELSE "wait_stop")
    /\ UNCHANGED <<hostVars, error, exitKind, cleanupVars, audioVars, encVars,
                   fileVars, postVars>>

----------------------------------------------------------------------------
(* main(): leaving the encoding phase *)

\* if args.duration: proc.wait() returns once the encoder has exited
WaitDuration ==
    /\ At("main", "wait_duration")
    /\ proc = "exited"
    /\ log' = Append(log, "wait_returned")
    /\ Goto("main", "flash_stop_duration")
    /\ UNCHANGED <<hostVars, error, exitKind, cleanupVars, audioVars, encVars,
                   fileVars, postVars>>

\* if args.duration: flash_screen_async(); print("Recording stopped!")
FlashStopDuration ==
    /\ At("main", "flash_stop_duration")
    /\ log' = Append(log, "stop_flash")
    /\ Goto("main", "probe")
    /\ UNCHANGED <<hostVars, error, exitKind, cleanupVars, audioVars, encVars,
                   fileVars, postVars>>

\* mutant of WaitStop: the wait also ends when the encoder has exited
WaitStopOrExit ==
    /\ At("main", "wait_stop")
    /\ \/ log' = Append(log, "stop_hotkey")
       \/ proc = "exited" /\ UNCHANGED log
    /\ Goto("main", "flash_stop")
    /\ UNCHANGED <<hostVars, error, exitKind, cleanupVars, audioVars, encVars,
                   fileVars, postVars>>

\* else: keyboard.wait('ctrl+f10') returns when the stop hotkey is pressed
WaitStop ==
    /\ At("main", "wait_stop")
    /\ log' = Append(log, "stop_hotkey")
    /\ Goto("main", "flash_stop")
    /\ UNCHANGED <<hostVars, error, exitKind, cleanupVars, audioVars, encVars,
                   fileVars, postVars>>

\* else: flash_screen_async()
FlashStop ==
    /\ At("main", "flash_stop")
    /\ log' = Append(log, "stop_flash")
    /\ Goto("main", "write_stop")
    /\ UNCHANGED <<hostVars, error, exitKind, cleanupVars, audioVars, encVars,
                   fileVars, postVars>>

\* else: proc.stdin.write(b'q\n'); proc.stdin.flush()
\* the pipe of an encoder that has exited is broken: the flush raises OSError
WriteStop ==
    /\ At("main", "write_stop")
    /\ log' = Append(log, "write_q")
    /\ IF proc = "running"
       THEN gotQ' = TRUE /\ Goto("main", "wait_exit") /\ UNCHANGED error
       ELSE Raise("BrokenPipe") /\ UNCHANGED gotQ
    /\ UNCHANGED <<hostVars, exitKind, cleanupVars, audioVars, proc, rc,
                   encWrote, fileVars, postVars>>

\* else: proc.wait(); print("Recording stopped!")
WaitExit ==
    /\ At("main", "wait_exit")
    /\ proc = "exited"
    /\ log' = Append(log, "wait_returned")
    /\ Goto("main", "probe")
    /\ UNCHANGED <<hostVars, error, exitKind, cleanupVars, audioVars, encVars,
                   fileVars, postVars>>

----------------------------------------------------------------------------
(* main(): post-processing *)

\* mutant of Probe: a missing duration line is read as duration 0
ProbeDefaultsDuration ==
    /\ At("main", "probe")
    /\ log' = Append(log, "probe")
    /\ \E line \in ProbeLines(outLen) :
         /\ probeResult' = IF line.match THEN "matched" ELSE "nomatch"
         /\ duration' = IF line.match THEN ParseDuration(line) ELSE 0
    /\ Goto("main", "reencode")
    /\ UNCHANGED <<hostVars, error, exitKind, cleanupVars, audioVars, encVars,
                   fileVars, reencodeRc, trim>>

\* result = subprocess.run([FFMPEG_EXE, "-i", output_file], ...)
\* h, m_, s = re.search(r'Duration: ...', result.stdout).groups()
\* re.search gives None without a duration line: .groups() raises
Probe ==
    /\ At("main", "probe")
    /\ log' = Append(log, "probe")
    /\ \E line \in ProbeLines(outLen) :
         IF line.match
         THEN /\ probeResult' = "matched"
              /\ duration' = ParseDuration(line)
              /\ Goto("main", "reencode")
              /\ UNCHANGED error
         ELSE /\ probeResult' = "nomatch"
              /\ Raise("AttributeError")
              /\ UNCHANGED duration
    /\ UNCHANGED <<hostVars, exitKind, cleanupVars, audioVars, encVars,
                   fileVars, reencodeRc, trim>>

\* subprocess.run([FFMPEG_EXE, "-y", "-i", output_file, "-ss", ..., "-t", ...,
\* tmp]) with no check of the exit status; a failed run may leave no
\* temporary file or a partial one
Reencode ==
    /\ At("main", "reencode")
    /\ log' = Append(log, "reencode")
    /\ trim' = [ss |-> StartOffset(duration), t |-> duration]
    /\ \E res \in {"trimmed", "partial", "absent"} :
         /\ tmpFile' = res
         /\ tmpLen' = IF res = "trimmed"
                      THEN TrimmedLength(outLen, StartOffset(duration),
                                         duration)
                      ELSE 0
         /\ reencodeRc' = IF res = "trimmed" THEN "ok" ELSE "err"
    /\ Goto("main", "replace")
    /\ UNCHANGED <<hostVars, error, exitKind, cleanupVars, audioVars, encVars,
                   outFile, outLen, probeResult, duration>>

\* os.replace(tmp, output_file): raises FileNotFoundError without tmp
Replace ==
    /\ At("main", "replace")
    /\ log' = Append(log, "replace")
    /\ IF tmpFile # "absent"
       THEN /\ outFile' = tmpFile
            /\ outLen' = tmpLen
            /\ tmpFile' = "absent"
            /\ tmpLen' = 0
            /\ Goto("main", "main_return")
            /\ UNCHANGED error
       ELSE /\ Raise("FileNotFoundError")
            /\ UNCHANGED fileVars
    /\ UNCHANGED <<hostVars, exitKind, cleanupVars, audioVars, encVars,
                   postVars>>

\* print("Recording saved to: ..."); main() returns
MainReturn ==
    /\ At("main", "main_return")
    /\ Goto("main", "finally")
    /\ UNCHANGED <<hostVars, error, exitKind, cleanupVars, audioVars, encVars,
                   fileVars, postVars, log>>

----------------------------------------------------------------------------
(* __main__: except / finally *)

\* except Exception as e: print(f"ERROR: {e}")
Except ==
    /\ At("main", "except")
    /\ Goto("main", "finally")
    /\ UNCHANGED <<hostVars, error, exitKind, cleanupVars, audioVars, encVars,
                   fileVars, postVars, log>>

\* finally: if 'args' in globals() and args.system_audio: cleanup_audio() ...
\* otherwise the interpreter exits
Finally ==
    /\ At("main", "finally")
    /\ IF args.system_audio
       THEN Goto("main", "cleanup_check") /\ UNCHANGED exitKind
       ELSE Goto("main", "done") /\ exitKind' = "normal"
    /\ UNCHANGED <<hostVars, error, cleanupVars, audioVars, encVars,
                   fileVars, postVars, log>>

\* if not args.silently: input("Press Enter to exit..."); with or without
\* that wait the interpreter then exits, and with it every thread of the
\* process
ExitAfterCleanup ==
    /\ At("main", "input")
    /\ Goto("main", "done")
    /\ exitKind' = "normal"
    /\ UNCHANGED <<hostVars, error, cleanupVars, audioVars, encVars,
                   fileVars, postVars, log>>

----------------------------------------------------------------------------
(* cleanup_audio(), run by thread t: the main thread from the finally      *)
(* block, the handler thread from _console_close_handler.  The test of     *)
(* _cleanup_done and the store to it are separate steps with no lock.      *)

CleanupReturnTo(t) == IF t = "main" THEN "input" ELSE "handler_return"

\* if _cleanup_done: return
CleanupCheck(t) ==
    /\ At(t, "cleanup_check")
    /\ Goto(t, IF cleanup_done THEN CleanupReturnTo(t) ELSE "cleanup_set")
    /\ UNCHANGED <<hostVars, error, exitKind, cleanupVars, audioVars, encVars,
                   fileVars, postVars, log>>

\* _cleanup_done = True
CleanupSet(t) ==
    /\ At(t, "cleanup_set")
    /\ cleanup_done' = TRUE
    /\ teardownRuns' = teardownRuns + 1
    /\ Goto(t, "cleanup_stop")
    /\ UNCHANGED <<hostVars, error, exitKind, teardownDone, audioVars,
                   encVars, fileVars, postVars, log>>

\* stop_audiorepeater()
StopAudiorepeater(t) ==
    /\ At(t, "cleanup_stop")
    /\ repeater' = FALSE
    /\ Goto(t, "cleanup_uninstall")
    /\ UNCHANGED <<hostVars, error, exitKind, cleanupVars, driver, vbDefault,
                   prov, encVars, fileVars, postVars, log>>

\* uninstall_vb_cable(): pnputil /delete-driver
UninstallVbCable(t) ==
    /\ At(t, "cleanup_uninstall")
    /\ driver' = FALSE
    /\ Goto(t, "cleanup_restart")
    /\ UNCHANGED <<hostVars, error, exitKind, cleanupVars, vbDefault, repeater,
                   prov, encVars, fileVars, postVars, log>>

\* uninstall_vb_cable(): restart_audio_services(); cleanup_audio returns
UninstallRestart(t) ==
    /\ At(t, "cleanup_restart")
    /\ vbDefault' = (vbDefault /\ driver)
    /\ teardownDone' = teardownDone + 1
    /\ Goto(t, CleanupReturnTo(t))
    /\ UNCHANGED <<hostVars, error, exitKind, cleanup_done, teardownRuns,
                   driver, repeater, prov, encVars, fileVars, postVars, log>>

Cleanup(t) ==
    \/ CleanupCheck(t)
    \/ CleanupSet(t)
    \/ StopAudiorepeater(t)
    \/ UninstallVbCable(t)
    \/ UninstallRestart(t)

----------------------------------------------------------------------------
(* The console control handler thread *)

\* Windows calls _console_close_handler(event) on a new thread:
\* if event in (2, 5, 6): cleanup_audio()
ConsoleEvent ==
    /\ At("handler", "idle")
    /\ handlerRegistered
    /\ \E ev \in CtrlEvents :
         /\ hevent' = ev
         /\ Goto("handler", IF ev \in {2, 5, 6} THEN "cleanup_check"
                                                ELSE "handler_return")
    /\ UNCHANGED <<args, handlerRegistered, ignoredStops, missingDevice,
                   cmdVars, error, exitKind, cleanupVars, audioVars, encVars, fileVars,
                   postVars, log>>

\* return False: the event goes on to the default handler, which ends the
\* process
HandlerReturn ==
    /\ At("handler", "handler_return")
    /\ Goto("handler", "returned")
    /\ exitKind' = "terminated"
    /\ UNCHANGED <<hostVars, error, cleanupVars, audioVars, encVars,
                   fileVars, postVars, log>>

----------------------------------------------------------------------------
(* The environment: the encoder process and the user *)

\* the encoder opens the output path (-y overwrites what is there)
EncoderOpenOutput ==
    /\ Alive
    /\ proc = "running"
    /\ ~encWrote
    /\ encWrote' = TRUE
    /\ outFile' = "raw"
    /\ outLen' = 0
    /\ UNCHANGED <<hostVars, pc, error, exitKind, cleanupVars, audioVars,
                   proc, rc, gotQ, tmpFile, tmpLen, postVars, log>>

\* the -t value of the command, in seconds
HardLimit(c) ==
    LET i == CHOOSE j \in 1..Len(c) : c[j] = "-t"
    IN  CHOOSE n \in 0..99 : Str(n) = c[i + 1]

\* the encoder exits: with an error at any time; cleanly once it has
\* output and either got the stop command or runs under a -t limit. A run
\* that reaches the -t limit leaves exactly that much content; a stopped or
\* failed run leaves what it had written
EncoderExit ==
    /\ Alive
    /\ proc = "running"
    /\ proc' = "exited"
    /\ \E r \in {"ok", "err"} :
         /\ r = "ok" => encWrote /\ (gotQ \/ DurationSet)
         /\ rc' = r
         /\ IF ~encWrote
            THEN UNCHANGED outLen
            ELSE IF r = "ok" /\ ~gotQ
                 THEN outLen' = HardLimit(cmd) * 100
                 ELSE \E len \in RecordedLengths : outLen' = len
    /\ UNCHANGED <<hostVars, pc, error, exitKind, cleanupVars, audioVars,
                   encWrote, gotQ, outFile, tmpFile, tmpLen, postVars, log>>

\* the user presses the stop hotkey between arming and the declared start,
\* while keyboard.wait('ctrl+f10') is not running: no hook is registered,
\* the press is lost
PressStopUnheard ==
    /\ Alive
    /\ pc["main"] \in {"wait_start", "spawn", "poll", "poll_sleep", "grace",
                       "started"}
    /\ ignoredStops < MaxIgnoredStops
    /\ ignoredStops' = ignoredStops + 1
    /\ UNCHANGED <<args, handlerRegistered, hevent, missingDevice, cmdVars,
                   pc, error,
                   exitKind, cleanupVars, audioVars, encVars, fileVars,
                   postVars, log>>

----------------------------------------------------------------------------

Main ==
    \/ RegisterHandler \/ EnsureAdmin
    \/ ResolveMicrophone \/ ResolveSpeakers
    \/ InstallVbCable \/ InstallRestart \/ SetVbAudioDefault
    \/ StartAudiorepeater
    \/ FlashReady \/ WaitStart \/ Spawn
    \/ Poll \/ PollSleep \/ Grace \/ FlashStarted
    \/ WaitDuration \/ FlashStopDuration
    \/ WaitStop \/ FlashStop \/ WriteStop \/ WaitExit
    \/ Probe \/ Reencode \/ Replace \/ MainReturn
    \/ Except \/ Finally \/ ExitAfterCleanup
    \/ Cleanup("main")

Handler == ConsoleEvent \/ Cleanup("handler") \/ HandlerReturn

Environment == EncoderOpenOutput \/ EncoderExit \/ PressStopUnheard

Next == Main \/ Handler \/ Environment

Spec == Init /\ [][Next]_vars

\* the program up to the synthesized command, over more command lines
CmdInit ==
    /\ args \in { a \in CmdArgSpace : ~a.has_duration => a.duration = 0 }
    /\ InitState

CmdNext ==
    \/ RegisterHandler \/ EnsureAdmin
    \/ ResolveMicrophone \/ ResolveSpeakers

CmdSpec == CmdInit /\ [][CmdNext]_vars

\* the interpreter keeps scheduling the main thread
FairSpec == Spec /\ WF_vars(Main)

----------------------------------------------------------------------------
(* The session state of the recording, read off the main thread *)

IdlePcs == {"start", "ensure_admin", "resolve_mic", "resolve_spk", "install",
            "install_restart", "set_default", "start_repeater", "ready"}

ArmedPcs == {"wait_start", "spawn"}

EncodingPcs == {"poll", "poll_sleep", "grace", "started", "wait_duration",
                "wait_stop"}

StoppingPcs == {"flash_stop_duration", "flash_stop", "write_stop",
                "wait_exit"}

PostProcessingPcs == {"probe", "reencode", "replace"}

SessionState ==
    IF error # "none" THEN "Failed"
    ELSE IF pc["main"] \in IdlePcs THEN "Idle"
    ELSE IF pc["main"] \in ArmedPcs THEN "Armed"
    ELSE IF pc["main"] \in EncodingPcs THEN "Encoding"
    ELSE IF pc["main"] \in StoppingPcs THEN "Stopping"
    ELSE IF pc["main"] \in PostProcessingPcs THEN "PostProcessing"
    ELSE "Done"

\* every provisioning step of main()
ProvisioningSteps == {"install", "restart", "set_default", "repeater"}

\* the program ended through the finally block of __main__
EndedThroughFinally == exitKind = "normal"

----------------------------------------------------------------------------
(* Claims *)

\* C1: with the system-audio flag set, the teardown body of cleanup_audio
\* (stop the repeater, uninstall the driver) is entered exactly once under
\* every interleaving of the handler thread with the main thread's final
\* cleanup call: never twice, and not zero times once the program has ended
\* through the top-level handler.
C1_TeardownExactlyOnce ==
    args.system_audio =>
        /\ teardownRuns <= 1
        /\ EndedThroughFinally => teardownRuns = 1

\* C2: with system audio enabled, the session is Armed (ready signal fired)
\* only after driver install, audio-service restart, default-device setting
\* and repeater start have all completed.
C2_ProvisionedBeforeArmed ==
    (args.system_audio /\ Logged("ready_flash")) => prov = ProvisioningSteps

C2_Witness ==
    /\ args.system_audio
    /\ pc["main"] = "wait_start"
    /\ SessionState = "Armed"
    /\ prov = ProvisioningSteps

\* a positive duration bound was given on the command line
DurationBound == args.has_duration /\ args.duration > 0

\* C3: with a duration bound configured, Encoding is left for Stopping only
\* because the encoder process exited: the session never waits for or
\* reacts to the stop hotkey and never writes a stop command to the encoder.
C3_DurationPathOnlyByExit ==
    DurationBound =>
        /\ pc["main"] \notin {"wait_stop", "flash_stop", "write_stop",
                              "wait_exit"}
        /\ ~Logged("stop_hotkey")
        /\ ~Logged("write_q")
        /\ ~gotQ
        /\ Logged("stop_flash") =>
               /\ proc = "exited"
               /\ Before("wait_returned", "stop_flash")

C3_Witness ==
    /\ DurationBound
    /\ SessionState = "PostProcessing"
    /\ Logged("stop_flash")
    /\ proc = "exited"

C5_FailedEncoderNoPostProcessing ==
    (proc = "exited" /\ rc = "err" /\ ~encWrote) =>
        /\ ~Logged("probe")
        /\ ~Logged("reencode")
        /\ ~Logged("replace")
        /\ EndedThroughFinally => error # "none"

\* C6: if the trim re-encode fails, with or without a partial temporary
\* file, the original output file is left untouched, the temporary file is
\* discarded and the failure is surfaced as an error; the original is
\* replaced only when the re-encode succeeded.
C6_FailedReencodeKeepsOriginal ==
    /\ (reencodeRc = "err" /\ pc["main"] # "replace") =>
           /\ outFile \in {"raw", "stale"}
           /\ tmpFile = "absent"
           /\ error # "none"
    /\ outFile \in {"trimmed", "partial"} => reencodeRc = "ok"

\* C7: if the probe output holds no duration line the session ends Failed:
\* no re-encode is started, no temporary file is created and the raw file
\* stays as the encoder left it.
C7_NoDurationLineFails ==
    probeResult = "nomatch" =>
        /\ error = "AttributeError"
        /\ SessionState = "Failed"
        /\ pc["main"] \notin PostProcessingPcs \cup {"main_return"}
        /\ ~Logged("reencode")
        /\ ~Logged("replace")
        /\ reencodeRc = "none"
        /\ trim = [ss |-> -1, t |-> -1]
        /\ tmpFile = "absent"
        /\ outFile \in {"raw", "stale"}
        /\ proc = "exited"

C7_Witness ==
    /\ probeResult = "nomatch"
    /\ outFile = "raw"
    /\ EndedThroughFinally

\* C8: once the encoder was spawned the session writes at most one control
\* message to it and awaits its exit before post-processing starts or the
\* program ends, also when writing the stop command fails.
C8_AwaitsEncoderExit ==
    /\ Count("write_q") <= 1
    /\ (Logged("spawn") /\ (Logged("probe") \/ EndedThroughFinally)) =>
           Logged("wait_returned")

\* C9: on any error raised after system-audio routing was engaged, the audio
\* teardown (repeater stop and driver uninstall) has run to completion
\* before the program exits, also when the console-close handler has already
\* begun the teardown.
C9_TeardownCompleteBeforeExit ==
    (/\ args.system_audio
     /\ prov = ProvisioningSteps
     /\ error # "none"
     /\ EndedThroughFinally) => teardownDone >= 1

\* C10: if a requested audio role has no resolvable active device the
\* session never arms: no provisioning step runs, the ready signal never
\* fires, the start hotkey is never awaited and no encoder is spawned.
C10_MissingDeviceNeverArms ==
    missingDevice # "none" =>
        /\ error \in {"StopIteration", "NoSpeakers"}
        /\ prov = {}
        /\ log = <<>>
        /\ proc = "none"
        /\ SessionState = "Failed"
        /\ pc["main"] \notin IdlePcs \cup ArmedPcs \cup EncodingPcs

C10_Witness ==
    /\ args.microphone
    /\ missingDevice = "speakers"
    /\ EndedThroughFinally

----------------------------------------------------------------------------
(* Claims about the synthesized command, checked under CmdSpec *)

\* main() has assembled cmd
Built == Len(cmd) > 0

\* positions of a token in cmd
Positions(tok) == { i \in 1..Len(cmd) : cmd[i] = tok }

HasArg(tok) == Positions(tok) # {}

First(tok) == CHOOSE i \in Positions(tok) : \A j \in Positions(tok) : i <= j

Last(tok) == CHOOSE i \in Positions(tok) : \A j \in Positions(tok) : j <= i

\* number of audio flags set on the command line
FlagCount ==
    (IF args.system_audio THEN 1 ELSE 0) + (IF args.microphone THEN 1 ELSE 0)

BothAudio == args.system_audio /\ args.microphone

\* lengths and delays of the planned audio inputs, as C11 states them
C11_LengthsAndDelays ==
    /\ Len(audio_inputs) = FlagCount
    /\ args.system_audio =>
           /\ audio_inputs[1].delay = 600
           /\ audio_inputs[1].label = "[a_sys]"
    /\ (args.microphone /\ ~args.system_audio) =>
           audio_inputs[1].delay = 500
    /\ BothAudio =>
           /\ audio_inputs[2].delay = 1200
           /\ audio_inputs[2].label = "[a_mic]"

\* C11 as stated: lengths 0, 1, 1, 2; delays 600 / 500 / 1200; with both
\* flags the list is [system audio with index 0, microphone with index 1].
C11_Original ==
    Built =>
        /\ C11_LengthsAndDelays
        /\ BothAudio =>
               /\ audio_inputs[1].idx = 0
               /\ audio_inputs[2].idx = 1

\* C11 amended: lengths 0, 1, 1, 2; delays 600 / 500 / 1200; with both
\* flags the list is [system audio, microphone] in ingestion order and the
\* entries carry the encoder input indices 1 and 2 (the video is input 0).
C11_PlannedInputs ==
    Built =>
        /\ C11_LengthsAndDelays
        /\ BothAudio =>
               /\ audio_inputs[1].idx = 1
               /\ audio_inputs[2].idx = 2

C11_Witness ==
    /\ Built
    /\ BothAudio
    /\ Len(audio_inputs) = 2

\* C12: with both audio sources the filter graph has exactly two delay
\* stages and one merge stage, the merge comes after both delays and
\* consumes the two labels they produce, and the audio map targets the
\* merged label; with one input there is no merge and the map targets the
\* label of the only delay stage.
C12_FilterGraph ==
    Built =>
        /\ BothAudio =>
               /\ audio_filters = << "[1:a]adelay=600|600[a_sys]",
                                     "[2:a]adelay=1200|1200[a_mic]",
                                     "[a_sys][a_mic]amerge=inputs=2[a_out]" >>
               /\ cmd[First("-filter_complex") + 1] =
                      "[1:a]adelay=600|600[a_sys];"
                      \o "[2:a]adelay=1200|1200[a_mic];"
                      \o "[a_sys][a_mic]amerge=inputs=2[a_out]"
               /\ cmd[Last("-map") + 1] = "[a_out]"
        /\ (args.system_audio /\ ~args.microphone) =>
               /\ audio_filters = << "[1:a]adelay=600|600[a_sys]" >>
               /\ cmd[First("-filter_complex") + 1] =
                      "[1:a]adelay=600|600[a_sys]"
               /\ cmd[Last("-map") + 1] = "[a_sys]"
        /\ (args.microphone /\ ~args.system_audio) =>
               /\ audio_filters = << "[1:a]adelay=500|500[a_out]" >>
               /\ cmd[First("-filter_complex") + 1] =
                      "[1:a]adelay=500|500[a_out]"
               /\ cmd[Last("-map") + 1] = "[a_out]"

C12_Witness ==
    /\ Built
    /\ BothAudio
    /\ Len(audio_filters) = 3
    /\ HasArg("-filter_complex")

\* C13: the command holds a filter graph argument, an audio map and the
\* audio codec arguments exactly when an audio flag is set; with none it
\* has the desktop video as its only input; the number of audio capture
\* inputs always equals the number of flags set.
C13_AudioArgsIffAudio ==
    Built =>
        /\ HasArg("-filter_complex") <=> FlagCount > 0
        /\ Cardinality(Positions("-map")) = (IF FlagCount > 0 THEN 2 ELSE 1)
        /\ HasArg("-c:a") <=> FlagCount > 0
        /\ HasArg("aac") <=> FlagCount > 0
        /\ HasArg("-b:a") <=> FlagCount > 0
        /\ HasArg("-ac") <=> FlagCount > 0
        /\ Cardinality(Positions("-i")) = 1 + FlagCount
        /\ Cardinality(Positions("dshow")) = FlagCount
        /\ Cardinality(Positions("gdigrab")) = 1
        /\ cmd[First("-i") + 1] = "desktop"

C13_Witness ==
    /\ Built
    /\ FlagCount = 0
    /\ Cardinality(Positions("-i")) = 1
    /\ ~HasArg("-filter_complex")

C15_LimitIffDurationGiven ==
    Built =>
        /\ HasArg("-t") <=> args.has_duration
        /\ args.has_duration =>
               /\ Cardinality(Positions("-t")) = 1
               /\ cmd[First("-t") + 1] = Str(args.duration + 4)

----------------------------------------------------------------------------
(* Claims about the trim and the start of the recording, checked under Spec *)

\* the encoder of a duration-bounded session ran to its -t limit
RanToHardLimit == DurationBound /\ encWrote /\ rc = "ok" /\ ~gotQ

C17_OffsetAndSpan ==
    /\ duration <= 400 => trim.ss = 0
    /\ duration > 400 => trim.ss = 4
    /\ trim.t = duration

\* C17 as stated: the offset is 0 for a probed duration of at most 4 s and
\* 4 above, the span is the full probed duration, and the offset never
\* reaches or exceeds the probed duration.
C17_Original ==
    Logged("reencode") =>
        /\ C17_OffsetAndSpan
        /\ trim.ss * 100 < duration

\* C17 amended: the offset is 0 for a probed duration of at most 4 s and 4
\* above, the span is the full probed duration, and the offset never
\* exceeds the probed duration and stays below it whenever the probed
\* duration is greater than 0.
C17_TrimOffset ==
    Logged("reencode") =>
        /\ C17_OffsetAndSpan
        /\ trim.ss * 100 <= duration
        /\ duration > 0 => trim.ss * 100 < duration

C17_Witness ==
    /\ Logged("reencode")
    /\ duration = 400
    /\ trim = [ss |-> 0, t |-> 400]

\* C18: recording is declared started only after the encoder of this
\* session began writing the output; a file already at the output path
\* does not make the session declare the start.
C18_StartedOnlyAfterEncoderWrote ==
    /\ Logged("file_seen") => encWrote
    /\ Logged("started_flash") => encWrote

\* C19: while the output file has not come into existence after the spawn,
\* the session is in the poll loop: no started signal, no Stopping,
\* PostProcessing, Done or Failed, whether or not the encoder has exited or
\* the stop hotkey was pressed.
C19_PollsWhileNoOutput ==
    (Logged("spawn") /\ outFile = "absent") =>
        /\ pc["main"] \in {"poll", "poll_sleep"}
        /\ SessionState = "Encoding"
        /\ error = "none"
        /\ ~Logged("file_seen")
        /\ ~Logged("started_flash")
        /\ ~Logged("stop_flash")
        /\ ~Logged("probe")

C19_Witness ==
    /\ Alive
    /\ Logged("spawn")
    /\ outFile = "absent"
    /\ proc = "exited"
    /\ ignoredStops > 0
    /\ pc["main"] = "poll"

\* C20: the stop command is never written to the encoder before the
\* recording was declared started; stop-hotkey presses made while Armed,
\* during the poll or the grace period have no effect.
C20_NoStopBeforeStarted ==
    /\ Logged("stop_hotkey") => Before("started_flash", "stop_hotkey")
    /\ Logged("stop_flash") => Before("started_flash", "stop_flash")
    /\ Logged("write_q") => Before("started_flash", "write_q")
    /\ gotQ => Logged("write_q")
    /\ ~Logged("started_flash") =>
           /\ ~gotQ
           /\ pc["main"] \notin StoppingPcs \cup PostProcessingPcs

C20_Witness ==
    /\ ignoredStops > 0
    /\ Logged("write_q")
    /\ gotQ

=============================================================================
